---- MODULE Spec2Model ----
(***************************************************************************)
(* protoc-gen-go-jsonschema: the selection engine (getMessages /           *)
(* getMessagesWithForce, called by generateFile) and the schema            *)
(* synthesizer (the JsonSchema() entry point and the _JsonSchema_WithDefs  *)
(* builder that generateMessageJSONSchema emits), as state machines.       *)
(*                                                                         *)
(* A message is a pair <<full name, k>>: k = 0 is a declared message, and  *)
(* k > 0 is the synthetic map-entry message protoc nests in the owner of   *)
(* its k-th field.  A field name is modelled by the field's declaration    *)
(* index in its message.                                                   *)
(***************************************************************************)
EXTENDS Integers, Sequences, FiniteSets, TLC

\* The largest number of message-typed fields drawn for one proto file.
MaxDeps == 2

----------------------------------------------------------------------------
\* The descriptor model (protogen.File / Message / Field), read-only input.

NoMsg == "-"

\* Messages declared in the proto file under generation, and imported ones.
LocalNames == {"pkg.A", "pkg.B", "pkg.A.N"}
ImportedNames == {"google.type.Date", "common.Money"}
Names == LocalNames \cup ImportedNames

\* file.Messages: the top-level messages of the file, in declaration order.
FileMessages == << <<"pkg.A", 0>>, <<"pkg.B", 0>> >>

\* The declared (non-synthetic) messages nested in a message.
DeclaredNested(name) == IF name = "pkg.A" THEN << <<"pkg.A.N", 0>> >> ELSE << >>

\* msg.Desc.ParentFile().Path() == file.Desc.Path()
IsLocal(name) == name \in LocalNames

\* isGoogleType: the full name starts with "google."
isGoogleType(name) == name \in {"google.type.Date"}

MessageOpts == {"nil", "true", "false"}
FileOpts == {"nil", "true", "false"}
FieldOpts == {"nil", "set", "ignore"}
Cards == {"single", "list", "map"}

\* A scalar field and a message-typed field.  kind is the kind of the
\* element (of the map value for a map field); msg is the message of a
\* message-kind element; key is the kind of the key of a map field; opts is
\* the field's json_schema option: absent,
\* set without ignore, or set with ignore; oneof is the name of the
\* declared oneof the field is a member of; optional is the proto3
\* optional keyword; bounds maps the bounds the field option sets (minimum,
\* max_items, ...) to their values.
ScalarField(card) ==
    [kind |-> "string", card |-> card, key |-> "string", msg |-> NoMsg,
     opts |-> "nil", oneof |-> "", optional |-> FALSE, bounds |-> << >>]
MessageField(card, name, opts) ==
    [kind |-> "message", card |-> card, key |-> "string", msg |-> name,
     opts |-> opts, oneof |-> "", optional |-> FALSE, bounds |-> << >>]

\* The fields every file of the model declares besides the drawn ones:
\* each local message starts with a scalar field, and pkg.B has a
\* map<string,string> and refers to the two imported messages.
FixedFields(name) ==
    CASE name = "pkg.A" -> << ScalarField("single") >>
      [] name = "pkg.B" -> << ScalarField("single"), ScalarField("map"),
                              MessageField("list", "google.type.Date", "nil"),
                              MessageField("single", "common.Money", "nil") >>
      [] name = "pkg.A.N" -> << ScalarField("single") >>
      [] OTHER -> << >>

VARIABLES
    file,            \* the descriptor: [fileOpt, msgOpt, fields]
    stack,           \* call stack of getMessagesWithForce
    visited,         \* map[string]bool of generateFile's getMessages call
    results,         \* messages appended so far, in append order
    targetMessages,  \* what getMessages returned to generateFile
    output,          \* the messages generateFile emitted functions for
    phase,           \* generateFile: "select", "done", "failed"; getMessages
                     \* run once more: "reselect"; a generated
                     \* JsonSchema(): "idle", "build", "returned"; a
                     \* builder called once more: "again", "answered"
    request,         \* the message JsonSchema() was called on
    defs,            \* the Definition Registry of the request
    calls,           \* call stack of the _JsonSchema_WithDefs builders
    root,            \* the node JsonSchema() returned
    bodyRuns,        \* how often each builder ran past its early return
    answer,          \* the node a builder called once more returned
    regId,           \* the identity of the map `defs` refers to
    earlier          \* the result of the request before the current one

selVars == <<stack, visited, results, targetMessages, output>>
synVars == <<request, defs, calls, root, bodyRuns, answer, regId, earlier>>
vars == <<file, phase, stack, visited, results, targetMessages, output,
          request, defs, calls, root, bodyRuns, answer, regId, earlier>>

\* field.Desc.Kind(): a map field is a repeated message-kind field whose
\* message is the synthetic entry.
Kind(f) == IF f.card = "map" THEN "message" ELSE f.kind
IsMap(f) == f.card = "map"
IsList(f) == f.card = "list"
MapValueKind(f) == f.kind

IsMapEntry(message) == message[2] > 0
FullName(message) == message[1]

\* message.Fields: the fields of a declared message; the key and the value
\* field of a map entry.
Fields(message) ==
    IF IsMapEntry(message)
    THEN LET f == file.fields[message[1]][message[2]] IN
         << ScalarField("single"),
            [ScalarField("single") EXCEPT !.kind = f.kind, !.msg = f.msg] >>
    ELSE file.fields[message[1]]

\* field.Desc.Number(): fields are numbered in declaration order, the key
\* of a map entry is 1 and its value is 2.
Number(message, k) == k

\* field.Message: the entry for a map field, the referenced message for a
\* message-kind field, nil otherwise.
FieldMessage(message, k) ==
    LET f == Fields(message)[k] IN
    IF IsMapEntry(message)
    THEN (IF f.kind = "message" THEN <<f.msg, 0>> ELSE <<NoMsg, 0>>)
    ELSE IF IsMap(f) THEN <<message[1], k>>
    ELSE IF f.kind = "message" THEN <<f.msg, 0>>
    ELSE <<NoMsg, 0>>

RECURSIVE MapEntries(_, _)
MapEntries(name, k) ==
    IF k > Len(file.fields[name]) THEN << >>
    ELSE (IF IsMap(file.fields[name][k]) THEN << <<name, k>> >> ELSE << >>)
         \o MapEntries(name, k + 1)

\* message.Messages: the nested messages, synthetic map entries included.
Messages(message) ==
    IF IsMapEntry(message) THEN << >>
    ELSE DeclaredNested(message[1]) \o MapEntries(message[1], 1)

getMessageJsonSchemaOptions(message) ==
    IF IsMapEntry(message) THEN "nil" ELSE file.msgOpt[message[1]]

getFileJsonSchemaOptions == file.fileOpt

----------------------------------------------------------------------------
\* The selection engine.

\* shouldGen with an explicit generate=false obeyed under force as well.
shouldGenObeyingFalse(message, defaultGenerate, force) ==
    LET opts == getMessageJsonSchemaOptions(message) IN
    IF opts = "nil" THEN defaultGenerate ELSE opts = "true"

\* shouldGen with the message-level option never read.
shouldGenDefaultOnly(message, defaultGenerate, force) == defaultGenerate

\* shouldGen of one loop iteration of getMessagesWithForce.
shouldGen(message, defaultGenerate, force) ==
    LET opts == getMessageJsonSchemaOptions(message) IN
    IF opts = "nil" THEN defaultGenerate
    ELSE LET optValue == (opts = "true") IN
         IF force /\ ~optValue THEN defaultGenerate ELSE optValue

Frame(messages, defaultGenerate, force) ==
    [messages |-> messages, i |-> 1, defaultGenerate |-> defaultGenerate,
     force |-> force, pc |-> "loop", j |-> 0, base |-> Len(results)]

Top == stack[Len(stack)]
Running == phase \in {"select", "reselect"} /\ Len(stack) > 0

\* The value message of a map field: the first field of the entry with
\* number 2 and a message.
RECURSIVE MapValueMessage(_, _)
MapValueMessage(entry, k) ==
    IF k > Len(Fields(entry)) THEN <<NoMsg, 0>>
    ELSE IF Number(entry, k) = 2 /\ FieldMessage(entry, k)[1] # NoMsg
         THEN FieldMessage(entry, k)
         ELSE MapValueMessage(entry, k + 1)

\* FieldDependency with a map field treated as any message-kind field: its
\* field.Message, the synthetic entry.
FieldDependencyEntry(message, k) ==
    LET f == Fields(message)[k] IN
    IF Kind(f) = "message" THEN FieldMessage(message, k) ELSE <<NoMsg, 0>>

\* The message a field forces into the selection, NoMsg when none: the
\* message of a message-kind field, the value message of a map field.
FieldDependency(message, k) ==
    LET f == Fields(message)[k] IN
    IF Kind(f) = "message"
    THEN IF IsMap(f)
         THEN (IF MapValueKind(f) = "message"
               THEN MapValueMessage(FieldMessage(message, k), 1)
               ELSE <<NoMsg, 0>>)
         ELSE FieldMessage(message, k)
    ELSE <<NoMsg, 0>>

\* The first field from the j-th on that has a dependency; 0 when none.
RECURSIVE NextDependency(_, _)
NextDependency(message, j) ==
    IF j > Len(Fields(message)) THEN 0
    ELSE IF FieldDependency(message, j)[1] # NoMsg THEN j
    ELSE NextDependency(message, j + 1)

\* The loop iteration of the top frame is over: the next message of its
\* list or, at the end of the list, return results to the caller, which
\* appends them (the appends are made in place) and goes on with its next
\* field, or, after its nested messages, ends its own iteration.
RECURSIVE Advance(_)
Advance(stk) ==
    LET fr == stk[Len(stk)] IN
    IF fr.i < Len(fr.messages)
    THEN [stk EXCEPT ![Len(stk)] = [fr EXCEPT !.i = @ + 1, !.pc = "loop",
                                                !.j = 0]]
    ELSE IF Len(stk) = 1 THEN << >>
    ELSE LET rest == SubSeq(stk, 1, Len(stk) - 1)
             caller == rest[Len(rest)] IN
         IF caller.pc = "fields"
         THEN [rest EXCEPT ![Len(rest)] = [caller EXCEPT !.j = @ + 1]]
         ELSE Advance(rest)

\* if len(message.Messages) > 0 { getMessagesWithForce(nested, true, true) }
ProcessNested(stk) ==
    LET fr == stk[Len(stk)]
        message == fr.messages[fr.i] IN
    IF Len(Messages(message)) > 0
    THEN Append([stk EXCEPT ![Len(stk)] = [fr EXCEPT !.pc = "nested"]],
                Frame(Messages(message), TRUE, TRUE))
    ELSE Advance(stk)

\* SelSkip with the nested messages of a message that does not generate
\* forced all the same (the nested block outside of `if shouldGen`).
SelSkipForcingNested ==
    /\ Running /\ Top.pc = "loop"
    /\ LET message == Top.messages[Top.i] IN
          \/ /\ IsMapEntry(message)
             /\ stack' = Advance(stack)
          \/ /\ ~IsMapEntry(message)
             /\ ~shouldGen(message, Top.defaultGenerate, Top.force)
             /\ stack' = ProcessNested(stack)
    /\ UNCHANGED <<file, visited, results, targetMessages, output, phase, synVars>>

\* for _, message := range messages: a map entry, or a message that does
\* not generate, is passed over.
SelSkip ==
    /\ Running /\ Top.pc = "loop"
    /\ LET message == Top.messages[Top.i] IN
          \/ IsMapEntry(message)
          \/ ~shouldGen(message, Top.defaultGenerate, Top.force)
    /\ stack' = Advance(stack)
    /\ UNCHANGED <<file, visited, results, targetMessages, output, phase, synVars>>

\* A variant of the first encounter that leaves the message unmarked.
SelVisitUnmarked ==
    /\ Running /\ Top.pc = "loop"
    /\ LET message == Top.messages[Top.i] IN
          /\ ~IsMapEntry(message)
          /\ shouldGen(message, Top.defaultGenerate, Top.force)
          /\ FullName(message) \notin visited
          /\ results' = Append(results, message)
    /\ stack' = [stack EXCEPT ![Len(stack)] = [@ EXCEPT !.pc = "fields", !.j = 1]]
    /\ UNCHANGED <<file, visited, targetMessages, output, phase, synVars>>

\* shouldGen and not yet visited: mark, append, go through the fields.
SelVisit ==
    /\ Running /\ Top.pc = "loop"
    /\ LET message == Top.messages[Top.i] IN
          /\ ~IsMapEntry(message)
          /\ shouldGen(message, Top.defaultGenerate, Top.force)
          /\ FullName(message) \notin visited
          /\ visited' = visited \cup {FullName(message)}
          /\ results' = Append(results, message)
    /\ stack' = [stack EXCEPT ![Len(stack)] = [@ EXCEPT !.pc = "fields", !.j = 1]]
    /\ UNCHANGED <<file, targetMessages, output, phase, synVars>>

\* A variant in which visited guards the traversal of the fields only: a
\* message that generates is appended at every encounter.
SelRevisitAppending ==
    /\ Running /\ Top.pc = "loop"
    /\ LET message == Top.messages[Top.i] IN
          /\ ~IsMapEntry(message)
          /\ shouldGen(message, Top.defaultGenerate, Top.force)
          /\ FullName(message) \in visited
          /\ results' = Append(results, message)
    /\ stack' = ProcessNested(stack)
    /\ UNCHANGED <<file, visited, targetMessages, output, phase, synVars>>

\* A variant without the visited test around the field loop: the fields of
\* a visited message are gone through at every encounter.
SelRevisitTraversing ==
    /\ Running /\ Top.pc = "loop"
    /\ LET message == Top.messages[Top.i] IN
          /\ ~IsMapEntry(message)
          /\ shouldGen(message, Top.defaultGenerate, Top.force)
          /\ FullName(message) \in visited
    /\ stack' = [stack EXCEPT ![Len(stack)] = [@ EXCEPT !.pc = "fields", !.j = 1]]
    /\ UNCHANGED <<file, visited, results, targetMessages, output, phase, synVars>>

\* shouldGen and already visited: the fields are not gone through again,
\* the nested messages are.
SelRevisit ==
    /\ Running /\ Top.pc = "loop"
    /\ LET message == Top.messages[Top.i] IN
          /\ ~IsMapEntry(message)
          /\ shouldGen(message, Top.defaultGenerate, Top.force)
          /\ FullName(message) \in visited
    /\ stack' = ProcessNested(stack)
    /\ UNCHANGED <<file, visited, results, targetMessages, output, phase, synVars>>

\* for _, field := range message.Fields: the next message-kind field with
\* a dependency: getMessagesWithForce([dep], true, true, visited).
SelField ==
    /\ Running /\ Top.pc = "fields"
    /\ LET message == Top.messages[Top.i]
           j == NextDependency(message, Top.j) IN
          /\ j # 0
          /\ stack' = Append([stack EXCEPT ![Len(stack)] = [@ EXCEPT !.j = j]],
                             Frame(<<FieldDependency(message, j)>>, TRUE, TRUE))
    /\ UNCHANGED <<file, visited, results, targetMessages, output, phase, synVars>>

\* No field with a dependency is left: the nested messages.
SelNested ==
    /\ Running /\ Top.pc = "fields"
    /\ NextDependency(Top.messages[Top.i], Top.j) = 0
    /\ stack' = ProcessNested(stack)
    /\ UNCHANGED <<file, visited, results, targetMessages, output, phase, synVars>>

localMessages(target) ==
    LET Keep(m) == IsLocal(FullName(m)) IN SelectSeq(target, Keep)
googleTypeMessages(target) ==
    LET Keep(m) == ~IsLocal(FullName(m)) /\ isGoogleType(FullName(m))
    IN SelectSeq(target, Keep)

\* The error generateFieldJSONSchema returns for a field: nil, whatever the
\* kind; the config builders drop the error of getKindTypeName.
generateFieldJSONSchemaError(f) == FALSE

\* The error generateMessageJSONSchema returns: that of the first rendered
\* field that has one.
generateMessageJSONSchemaError(name) ==
    \E k \in 1..Len(file.fields[name]) :
        /\ file.fields[name][k].opts # "ignore"
        /\ generateFieldJSONSchemaError(file.fields[name][k])

\* generateFile once getMessages has returned: the local messages, then the
\* google types, each with a fresh MessageSchemaGenerator; `return nil, err`
\* at the first message whose generation fails.
generateFile ==
    /\ phase = "select" /\ Len(stack) = 0
    /\ targetMessages' = results
    /\ LET out == localMessages(results) \o googleTypeMessages(results)
           failed == \E i \in 1..Len(out) :
                        generateMessageJSONSchemaError(FullName(out[i]))
       IN  /\ output' = IF failed THEN << >> ELSE out
           /\ phase' = IF failed THEN "failed" ELSE "done"
    /\ UNCHANGED <<file, stack, visited, results, synVars>>

\* getMessages(file.Messages, generateAll, visited) once more, with the
\* visited map the first run left.
getMessagesAgain ==
    /\ phase = "done"
    /\ stack' = << [messages |-> FileMessages, i |-> 1,
                    defaultGenerate |-> getFileJsonSchemaOptions = "true",
                    force |-> FALSE, pc |-> "loop", j |-> 0, base |-> 0] >>
    /\ results' = << >>
    /\ phase' = "reselect"
    /\ UNCHANGED <<file, visited, targetMessages, output, synVars>>

----------------------------------------------------------------------------
\* The type mapper and the field configs (schemaFieldConfig).

jsArray == "array"
jsBoolean == "boolean"
jsInteger == "integer"
jsNumber == "number"
jsObject == "object"
jsString == "string"

Integer32Kinds == {"int32", "sint32", "uint32", "fixed32", "sfixed32"}
Integer64Kinds == {"int64", "sint64", "uint64", "fixed64", "sfixed64"}

\* A variant that maps the 64-bit integer kinds to string.
getKindTypeNameString64(kind) ==
    CASE kind \in {"bool"} -> [typeName |-> jsBoolean, err |-> FALSE]
      [] kind \in {"enum"} \cup Integer32Kinds -> [typeName |-> jsInteger, err |-> FALSE]
      [] kind \in Integer64Kinds -> [typeName |-> jsString, err |-> FALSE]
      [] kind \in {"float", "double"} -> [typeName |-> jsNumber, err |-> FALSE]
      [] kind \in {"string", "bytes"} -> [typeName |-> jsString, err |-> FALSE]
      [] kind \in {"message", "group"} -> [typeName |-> jsObject, err |-> FALSE]
      [] OTHER -> [typeName |-> "", err |-> TRUE]

\* getKindTypeName: the JSON Schema type of a field kind, and whether the
\* kind is unsupported.
getKindTypeName(kind) ==
    CASE kind = "bool" -> [typeName |-> jsBoolean, err |-> FALSE]
      [] kind = "enum" -> [typeName |-> jsInteger, err |-> FALSE]
      [] kind \in Integer32Kinds -> [typeName |-> jsInteger, err |-> FALSE]
      [] kind \in Integer64Kinds -> [typeName |-> jsInteger, err |-> FALSE]
      [] kind \in {"float", "double"} -> [typeName |-> jsNumber, err |-> FALSE]
      [] kind = "string" -> [typeName |-> jsString, err |-> FALSE]
      [] kind = "bytes" -> [typeName |-> jsString, err |-> FALSE]
      [] kind = "message" -> [typeName |-> jsObject, err |-> FALSE]
      [] kind = "group" -> [typeName |-> jsObject, err |-> FALSE]
      [] OTHER -> [typeName |-> "", err |-> TRUE]

\* A schemaFieldConfig; nested is empty or holds the one nested config.
Config(typeName, messageRef, nested) ==
    [typeName |-> typeName, messageRef |-> messageRef, nested |-> nested,
     isBytes |-> FALSE, isEnum |-> FALSE, propertyNamesPattern |-> ""]

\* referenceName: the call of the builder of a message, named by the message.
referenceName(msg) == msg

getMessageSchemaConfig(msg) == Config("", referenceName(msg), << >>)

\* The nested config of an array or a map, by the kind of the element.
ElementConfig(f) ==
    LET kindTypeName == getKindTypeName(f.kind).typeName IN
    CASE f.kind = "message" -> getMessageSchemaConfig(f.msg)
      [] f.kind = "enum" ->
            [Config(kindTypeName, NoMsg, << >>) EXCEPT !.isEnum = TRUE]
      [] f.kind = "bytes" ->
            [Config(kindTypeName, NoMsg, << >>) EXCEPT !.isBytes = TRUE]
      [] OTHER -> Config(kindTypeName, NoMsg, << >>)

getScalarSchemaConfig(f) ==
    LET kindTypeName == getKindTypeName(f.kind).typeName
        cfg == Config(kindTypeName, NoMsg, << >>) IN
    CASE f.kind = "message" ->
            LET nestedCfg == getMessageSchemaConfig(f.msg) IN
            [cfg EXCEPT !.typeName = nestedCfg.typeName,
                        !.messageRef = nestedCfg.messageRef,
                        !.nested = nestedCfg.nested]
      [] f.kind = "enum" -> [cfg EXCEPT !.isEnum = TRUE]
      [] f.kind = "bytes" -> [cfg EXCEPT !.isBytes = TRUE]
      [] OTHER -> cfg

getArraySchemaConfig(f) == Config(jsArray, NoMsg, << ElementConfig(f) >>)

\* A variant that knows the 32-bit integer key kinds only.
getMapSchemaConfig32(f) ==
    [Config(jsObject, NoMsg, << ElementConfig(f) >>)
        EXCEPT !.propertyNamesPattern =
            CASE f.key \in Integer32Kinds -> "^-?[0-9]+$"
              [] f.key = "bool" -> "^(true|false)$"
              [] OTHER -> ""]

getMapSchemaConfig(f) ==
    [Config(jsObject, NoMsg, << ElementConfig(f) >>)
        EXCEPT !.propertyNamesPattern =
            CASE f.key \in Integer32Kinds \cup Integer64Kinds -> "^-?[0-9]+$"
              [] f.key = "bool" -> "^(true|false)$"
              [] OTHER -> ""]

\* generateFieldJSONSchema: the config builder is chosen by cardinality.
generateFieldJSONSchema(f) ==
    IF IsList(f) THEN getArraySchemaConfig(f)
    ELSE IF IsMap(f) THEN getMapSchemaConfig(f)
    ELSE getScalarSchemaConfig(f)

----------------------------------------------------------------------------
\* Schema nodes (jsonschema.Schema) and the code emitSchemaField emits.

NoRef == << >>
\* "#/$defs/" + defKey
Ref(name) == <<"#/$defs/", name>>
\* extractRefKey: the key a $ref names, the empty key for another form.
RefKey(ref) == IF Len(ref) = 2 /\ ref[1] = "#/$defs/" THEN ref[2] ELSE ""

Schema ==
    [Type |-> "", Ref |-> NoRef, Title |-> "", Properties |-> << >>,
     Required |-> << >>, Items |-> << >>, AdditionalProperties |-> << >>,
     PropertyNames |-> "", OneOf |-> << >>, AllOf |-> << >>, Defs |-> << >>,
     Bounds |-> << >>]

\* A variant that writes the reference in the "#/definitions/" form.
RefSchemaLegacy(name) == [Schema EXCEPT !.Ref = <<"#/definitions/", name>>]

\* &jsonschema.Schema{Ref: "#/$defs/<defKey>"}
RefSchema(name) == [Schema EXCEPT !.Ref = Ref(name)]

\* The builder the expression emitted for a field calls; NoMsg when the
\* expression calls none.
CalledBuilder(cfg, f) ==
    IF cfg.messageRef # NoMsg /\ cfg.typeName = "" /\ cfg.nested = << >>
    THEN (IF f.opts = "nil" THEN cfg.messageRef ELSE NoMsg)
    ELSE IF cfg.nested # << >> /\ cfg.nested[1].messageRef # NoMsg
         THEN cfg.nested[1].messageRef
         ELSE NoMsg

\* fmt.Sprintf("%g", v) for an integral v: the sign and the decimal digits.
RECURSIVE Digits(_)
Digits(v) == IF v < 10 THEN <<v>> ELSE Digits(v \div 10) \o <<v % 10>>
FormatG(v) ==
    [minus |-> v < 0, digits |-> IF v < 0 THEN Digits(0 - v) ELSE Digits(v)]

ContainerBounds == {"min_items", "max_items", "min_properties", "max_properties"}
ValueBounds == {"minimum", "maximum", "min_length", "max_length"}

\* The bounds emitted from the field option, of the given names: those whose
\* getter does not return 0; Minimum and Maximum as json.Number("%g").
EmittedBounds(f, names) ==
    LET set == IF f.opts = "nil" THEN {}
               ELSE {b \in DOMAIN f.bounds \cap names : f.bounds[b] # 0}
    IN  IF set = {} THEN << >>
        ELSE [b \in set |-> IF b \in {"minimum", "maximum"}
                             THEN FormatG(f.bounds[b]) ELSE f.bounds[b]]

\* The value of the expression emitSchemaField emits for a field, given
\* what the builder it calls returned.
emitSchemaField(cfg, f, returned) ==
    IF cfg.messageRef # NoMsg /\ cfg.typeName = "" /\ cfg.nested = << >>
       /\ f.opts = "nil"
    THEN returned
    ELSE LET element ==
                 IF cfg.nested = << >> THEN << >>
                 ELSE IF cfg.nested[1].messageRef # NoMsg THEN << returned >>
                 ELSE << [Schema EXCEPT
                            !.Type = IF cfg.nested[1].typeName # ""
                                     THEN cfg.nested[1].typeName ELSE jsObject,
                            !.Bounds = EmittedBounds(f, ValueBounds)] >>
         IN  [Schema EXCEPT
                !.Bounds = IF cfg.nested = << >>
                           THEN EmittedBounds(f, ContainerBounds \cup ValueBounds)
                           ELSE EmittedBounds(f, ContainerBounds),
                !.Type = cfg.typeName,
                !.Title = IF f.opts = "set" THEN "option" ELSE "comment",
                !.Items = IF cfg.typeName = jsObject THEN << >> ELSE element,
                !.AdditionalProperties =
                    IF cfg.typeName = jsObject THEN element ELSE << >>,
                !.PropertyNames = cfg.propertyNamesPattern]

----------------------------------------------------------------------------
\* The generated code: x.JsonSchema() and <Message>_JsonSchema_WithDefs.

Ignored(f) == f.opts = "ignore"

\* A variant that lists repeated fields as required.
RECURSIVE requiredFieldsWithLists(_, _)
requiredFieldsWithLists(name, k) ==
    IF k > Len(file.fields[name]) THEN << >>
    ELSE LET f == file.fields[name][k] IN
         (IF ~Ignored(f) /\ f.oneof = "" /\ ~f.optional /\ ~IsMap(f)
          THEN <<k>> ELSE << >>) \o requiredFieldsWithLists(name, k + 1)

\* Required: the non-ignored fields outside any oneof, not optional, not
\* repeated and not maps, in declaration order.
RECURSIVE requiredFields(_, _)
requiredFields(name, k) ==
    IF k > Len(file.fields[name]) THEN << >>
    ELSE LET f == file.fields[name][k] IN
         (IF ~Ignored(f) /\ f.oneof = "" /\ ~f.optional /\ ~IsList(f) /\ ~IsMap(f)
          THEN <<k>> ELSE << >>) \o requiredFields(name, k + 1)

\* The names a declared oneof may have, as sort.Strings orders them.
OneofNames == <<"kind", "shape">>

\* A variant of oneofGroups[g] that is filled before the ignore test: the
\* ignored members are in the group.
RECURSIVE oneofGroupWithIgnored(_, _, _)
oneofGroupWithIgnored(name, g, k) ==
    IF k > Len(file.fields[name]) THEN << >>
    ELSE LET f == file.fields[name][k] IN
         (IF f.oneof = g THEN <<k>> ELSE << >>)
         \o oneofGroupWithIgnored(name, g, k + 1)

\* oneofGroups[g]: the non-ignored members of the declared oneof g.
RECURSIVE oneofGroup(_, _, _)
oneofGroup(name, g, k) ==
    IF k > Len(file.fields[name]) THEN << >>
    ELSE LET f == file.fields[name][k] IN
         (IF ~Ignored(f) /\ f.oneof = g THEN <<k>> ELSE << >>)
         \o oneofGroup(name, g, k + 1)

\* A variant that wraps the groups in AllOf also when there is one group.
WithOneofsAllOf(name, schema) ==
    LET IsGroup(g) == Len(oneofGroup(name, g, 1)) > 0
        groupNames == SelectSeq(OneofNames, IsGroup)
        OneOfOf(g) ==
            LET members == oneofGroup(name, g, 1) IN
            [m \in 1..Len(members) |->
                [Schema EXCEPT !.Required = <<members[m]>>]]
    IN  IF Len(groupNames) = 0 THEN schema
        ELSE [schema EXCEPT !.AllOf =
                [g \in 1..Len(groupNames) |->
                    [Schema EXCEPT !.OneOf = OneOfOf(groupNames[g])]]]

\* The schema with the oneof constraints set: OneOf for one group, AllOf of
\* the groups' OneOf for more.
WithOneofs(name, schema) ==
    LET IsGroup(g) == Len(oneofGroup(name, g, 1)) > 0
        groupNames == SelectSeq(OneofNames, IsGroup)
        OneOfOf(g) ==
            LET members == oneofGroup(name, g, 1) IN
            [m \in 1..Len(members) |->
                [Schema EXCEPT !.Required = <<members[m]>>]]
    IN  IF Len(groupNames) = 0 THEN schema
        ELSE IF Len(groupNames) = 1
        THEN [schema EXCEPT !.OneOf = OneOfOf(groupNames[1])]
        ELSE [schema EXCEPT !.AllOf =
                [g \in 1..Len(groupNames) |->
                    [Schema EXCEPT !.OneOf = OneOfOf(groupNames[g])]]]

\* A variant that leaves the type of the schema of a message unset.
NewSchemaUntyped(name) == [Schema EXCEPT !.Required = requiredFields(name, 1)]

\* A variant that emits no required list.
NewSchemaNoRequired(name) == [Schema EXCEPT !.Type = jsObject]

\* schema := &jsonschema.Schema{Type: "object", Properties: ..., Required: ...}
NewSchema(name) ==
    [Schema EXCEPT !.Type = jsObject, !.Required = requiredFields(name, 1)]

\* The first field from the k-th on that is not ignored; 0 when none.
RECURSIVE NextField(_, _)
NextField(name, k) ==
    IF k > Len(file.fields[name]) THEN 0
    ELSE IF ~Ignored(file.fields[name][k]) THEN k
    ELSE NextField(name, k + 1)

TopCall == calls[Len(calls)]
Building == phase \in {"build", "again"} /\ Len(calls) > 0

\* A variant that returns the registry entry of the root type itself, with
\* the registry attached to it.
JsonSchemaAlias(name, d) == [d[name] EXCEPT !.Defs = d]

\* A variant that deletes the key of the root type from the registry it
\* attaches.
JsonSchemaRootDeleted(name, d) ==
    [RefSchema(name) EXCEPT !.Defs = [n \in DOMAIN d \ {name} |-> d[n]]]

\* The tail of JsonSchema(): the node returned and the registry it carries.
JsonSchemaRoot(name, d) == [RefSchema(name) EXCEPT !.Defs = d]

\* A variant with one registry for the package: every request works on the
\* map the request before it filled.
PackageRegistry == [id |-> regId, defs |-> defs]

\* defs := make(map[string]*jsonschema.Schema): a new, empty map.
NewRegistry == [id |-> regId + 1, defs |-> << >>]

\* x.JsonSchema(): defs := make(map); _ = X_JsonSchema_WithDefs(defs)
JsonSchema ==
    /\ phase = "idle"
    /\ \E name \in Names :
          /\ request' = name
          /\ calls' = << [msg |-> name, pc |-> "enter", k |-> 0] >>
    /\ defs' = NewRegistry.defs
    /\ regId' = NewRegistry.id
    /\ phase' = "build"
    /\ UNCHANGED <<file, selVars, root, bodyRuns, answer, earlier>>

\* The builder on top returns `value`, the registry being d: to the
\* expression of the caller's field, which is assigned to the property, or
\* to JsonSchema(), which drops the value and returns the root, or to the
\* caller that called the builder once more with the registry.
ReturnTo(value, d) ==
    IF Len(calls) = 1
    THEN /\ calls' = << >>
         /\ defs' = d
         /\ IF phase = "build"
            THEN /\ root' = JsonSchemaRoot(request, d)
                 /\ phase' = "returned"
                 /\ UNCHANGED answer
            ELSE /\ answer' = value
                 /\ phase' = "answered"
                 /\ UNCHANGED root
    ELSE LET rest == SubSeq(calls, 1, Len(calls) - 1)
             caller == rest[Len(rest)]
             f == file.fields[caller.msg][caller.k]
             node == emitSchemaField(generateFieldJSONSchema(f), f, value)
         IN  /\ calls' = [rest EXCEPT ![Len(rest)] = [caller EXCEPT !.k = @ + 1]]
             /\ defs' = [d EXCEPT ![caller.msg].Properties =
                                        (caller.k :> node) @@ @]
             /\ UNCHANGED <<root, phase, answer>>

\* A variant of the early return that stores a fresh schema under the key
\* before it returns the reference.
WithDefsEarlyReturnReplacing ==
    /\ Building /\ TopCall.pc = "enter"
    /\ TopCall.msg \in DOMAIN defs
    /\ ReturnTo(RefSchema(TopCall.msg),
                [defs EXCEPT ![TopCall.msg] = NewSchema(TopCall.msg)])
    /\ UNCHANGED <<file, selVars, regId, earlier, request, bodyRuns>>

\* if _, ok := defs[key]; ok { return &jsonschema.Schema{Ref: ...} }
WithDefsEarlyReturn ==
    /\ Building /\ TopCall.pc = "enter"
    /\ TopCall.msg \in DOMAIN defs
    /\ ReturnTo(RefSchema(TopCall.msg), defs)
    /\ UNCHANGED <<file, selVars, regId, earlier, request, bodyRuns>>

\* A variant that goes on to the fields without having stored the schema
\* under its key.
WithDefsRegisterLate ==
    /\ Building /\ TopCall.pc = "enter"
    /\ TopCall.msg \notin DOMAIN defs
    /\ bodyRuns' = [bodyRuns EXCEPT ![TopCall.msg] = @ + 1]
    /\ calls' = [calls EXCEPT ![Len(calls)] = [@ EXCEPT !.pc = "fields", !.k = 1]]
    /\ UNCHANGED <<file, selVars, regId, earlier, request, defs, root, phase, answer>>

\* defs[key] = schema, before any field is processed.
WithDefsRegister ==
    /\ Building /\ TopCall.pc = "enter"
    /\ TopCall.msg \notin DOMAIN defs
    /\ defs' = (TopCall.msg :> NewSchema(TopCall.msg)) @@ defs
    /\ bodyRuns' = [bodyRuns EXCEPT ![TopCall.msg] = @ + 1]
    /\ calls' = [calls EXCEPT ![Len(calls)] = [@ EXCEPT !.pc = "fields", !.k = 1]]
    /\ UNCHANGED <<file, selVars, regId, earlier, request, root, phase, answer>>

\* schema.Properties[name] = <expression>, the expression calling no builder.
WithDefsProperty ==
    /\ Building /\ TopCall.pc = "fields"
    /\ LET k == NextField(TopCall.msg, TopCall.k) IN
          /\ k # 0
          /\ LET f == file.fields[TopCall.msg][k]
                 cfg == generateFieldJSONSchema(f) IN
                /\ CalledBuilder(cfg, f) = NoMsg
                /\ defs' = [defs EXCEPT ![TopCall.msg].Properties =
                                (k :> emitSchemaField(cfg, f, Schema)) @@ @]
          /\ calls' = [calls EXCEPT ![Len(calls)] = [@ EXCEPT !.k = k + 1]]
    /\ UNCHANGED <<file, selVars, regId, earlier, request, root, bodyRuns, phase, answer>>

\* schema.Properties[name] = <expression>, the expression calling a builder.
WithDefsCall ==
    /\ Building /\ TopCall.pc = "fields"
    /\ LET k == NextField(TopCall.msg, TopCall.k) IN
          /\ k # 0
          /\ LET f == file.fields[TopCall.msg][k]
                 callee == CalledBuilder(generateFieldJSONSchema(f), f) IN
                /\ callee # NoMsg
                /\ calls' = Append([calls EXCEPT ![Len(calls)] = [@ EXCEPT !.k = k]],
                                   [msg |-> callee, pc |-> "enter", k |-> 0])
    /\ UNCHANGED <<file, selVars, regId, earlier, request, defs, root, bodyRuns, phase,
                   answer>>

\* The fields are done: the oneof constraints, and return a $ref.
WithDefsReturn ==
    /\ Building /\ TopCall.pc = "fields"
    /\ NextField(TopCall.msg, TopCall.k) = 0
    /\ ReturnTo(RefSchema(TopCall.msg),
                [defs EXCEPT ![TopCall.msg] = WithOneofs(TopCall.msg, @)])
    /\ UNCHANGED <<file, selVars, regId, earlier, request, bodyRuns>>

\* <Message>_JsonSchema_WithDefs(defs), called once more by the caller that
\* holds the registry a request left, for a type the registry holds.
WithDefsAgain ==
    /\ phase = "returned"
    /\ \E name \in DOMAIN defs :
          calls' = << [msg |-> name, pc |-> "enter", k |-> 0] >>
    /\ phase' = "again"
    /\ UNCHANGED <<file, selVars, regId, earlier, request, defs, root, bodyRuns, answer>>

\* No request has returned yet.
NoEarlier == [request |-> NoMsg, root |-> Schema, reg |-> 0]

\* y.JsonSchema(), called when the request before it has returned; the
\* caller keeps the root it got.
JsonSchemaNext ==
    /\ phase = "returned"
    /\ earlier = NoEarlier
    /\ earlier' = [request |-> request, root |-> root, reg |-> regId]
    /\ \E name \in {"pkg.A", "pkg.B"} :
          /\ request' = name
          /\ calls' = << [msg |-> name, pc |-> "enter", k |-> 0] >>
    /\ defs' = NewRegistry.defs
    /\ regId' = NewRegistry.id
    /\ bodyRuns' = [n \in Names |-> 0]
    /\ phase' = "build"
    /\ UNCHANGED <<file, selVars, root, answer>>

SynthIdle ==
    /\ regId = 0
    /\ earlier = NoEarlier
    /\ answer = Schema
    /\ request = NoMsg
    /\ defs = << >>
    /\ calls = << >>
    /\ root = Schema
    /\ bodyRuns = [n \in Names |-> 0]

----------------------------------------------------------------------------
\* The proto files of the selection model.

Owners == <<"pkg.A", "pkg.B", "pkg.A.N">>
SelCards == <<"single", "map">>

\* The message-typed fields a file may declare besides the fixed ones, in
\* their declaration order: d is the field's place in that order.
NumSelDeps == Len(Owners) * Len(Owners) * Len(SelCards)
SelDepOwner(d) == Owners[((d - 1) \div (Len(Owners) * Len(SelCards))) + 1]
SelDepField(d) ==
    MessageField(SelCards[((d - 1) % Len(SelCards)) + 1],
                 Owners[(((d - 1) \div Len(SelCards)) % Len(Owners)) + 1],
                 "nil")

\* The subsets of S of at most n elements.
RECURSIVE SubsetsUpTo(_, _)
SubsetsUpTo(S, n) ==
    IF n = 0 THEN {{}}
    ELSE LET smaller == SubsetsUpTo(S, n - 1) IN
         smaller \cup {T \cup {x} : T \in smaller, x \in S}

RECURSIVE DrawnFields(_, _, _)
DrawnFields(D, name, d) ==
    IF d > NumSelDeps THEN << >>
    ELSE (IF d \in D /\ SelDepOwner(d) = name THEN <<SelDepField(d)>> ELSE << >>)
         \o DrawnFields(D, name, d + 1)

FileOf(fileOpt, msgOpt, D) ==
    [fileOpt |-> fileOpt,
     msgOpt |-> [n \in Names |-> IF n \in LocalNames THEN msgOpt[n] ELSE "nil"],
     fields |-> [n \in Names |-> FixedFields(n) \o DrawnFields(D, n, 1)]]

\* generateAll for a generator that generates unless told not to: a file
\* without the option generates all of its messages.
generateAllByDefault == getFileJsonSchemaOptions # "false"

\* generateAll := false; if opts != nil { generateAll = opts.GetGenerate() }
generateAll == getFileJsonSchemaOptions = "true"

Init ==
    /\ \E fileOpt \in FileOpts, msgOpt \in [LocalNames -> MessageOpts],
          D \in SubsetsUpTo(1..NumSelDeps, MaxDeps) :
          file = FileOf(fileOpt, msgOpt, D)
    /\ visited = {}
    /\ results = << >>
    /\ stack = << [messages |-> FileMessages, i |-> 1,
                   defaultGenerate |-> generateAll, force |-> FALSE,
                   pc |-> "loop", j |-> 0, base |-> 0] >>
    /\ targetMessages = << >>
    /\ output = << >>
    /\ phase = "select"
    /\ SynthIdle

Next ==
    \/ SelSkip
    \/ SelVisit
    \/ SelRevisit
    \/ SelField
    \/ SelNested
    \/ generateFile
    \/ getMessagesAgain

Spec == Init /\ [][Next]_vars

\* generateFile runs to its end: no step of it waits on anything.
SpecFair == Spec /\ WF_vars(Next)

----------------------------------------------------------------------------
\* The proto files of the synthesizer model: the message-typed fields are
\* drawn with their cardinality and their field option.

SynShapes ==
    << <<"single", "nil">>, <<"single", "set">>, <<"list", "nil">>,
       <<"list", "set">>, <<"map", "nil">>, <<"map", "set">>,
       <<"single", "ignore">> >>

SynOwners == <<"pkg.A", "pkg.B">>
NumSynDeps == Len(SynOwners) * Len(Owners) * Len(SynShapes)
SynDepOwner(d) == SynOwners[((d - 1) \div (Len(Owners) * Len(SynShapes))) + 1]
SynDepField(d) ==
    LET shape == SynShapes[((d - 1) % Len(SynShapes)) + 1] IN
    MessageField(shape[1],
                 Owners[(((d - 1) \div Len(SynShapes)) % Len(Owners)) + 1],
                 shape[2])

RECURSIVE SynDrawnFields(_, _, _)
SynDrawnFields(D, name, d) ==
    IF d > NumSynDeps THEN << >>
    ELSE (IF d \in D /\ SynDepOwner(d) = name THEN <<SynDepField(d)>> ELSE << >>)
         \o SynDrawnFields(D, name, d + 1)

InitSynth ==
    /\ \E D \in SubsetsUpTo(1..NumSynDeps, MaxDeps) :
          file = [fileOpt |-> "true",
                  msgOpt |-> [n \in Names |-> "nil"],
                  fields |-> [n \in Names |->
                                 FixedFields(n) \o SynDrawnFields(D, n, 1)]]
    /\ visited = {}
    /\ results = << >>
    /\ stack = << >>
    /\ targetMessages = << >>
    /\ output = << >>
    /\ phase = "idle"
    /\ SynthIdle

NextSynth ==
    \/ JsonSchema
    \/ WithDefsEarlyReturn
    \/ WithDefsRegister
    \/ WithDefsProperty
    \/ WithDefsCall
    \/ WithDefsReturn
    \/ WithDefsAgain

SpecSynth == InitSynth /\ [][NextSynth]_vars

\* The generated code runs to completion: a request that can take a step
\* takes it.
SpecSynthFair == SpecSynth /\ WF_vars(NextSynth)

\* The callers that make a second root request, for one of the two
\* messages whose fields are drawn.
NextRequests ==
    \/ JsonSchema
    \/ WithDefsEarlyReturn
    \/ WithDefsRegister
    \/ WithDefsProperty
    \/ WithDefsCall
    \/ WithDefsReturn
    \/ JsonSchemaNext
SpecRequests == InitSynth /\ [][NextRequests]_vars

----------------------------------------------------------------------------
\* The proto files of the field model: the fields of pkg.A are drawn, either
\* a declaration of up to MaxFields fields that differ in cardinality,
\* oneof membership, the optional keyword and the field option, or one field
\* of any kind, cardinality and map key kind.

MaxFields == 3

FieldShapes ==
    << ScalarField("single"),
       [ScalarField("single") EXCEPT !.optional = TRUE],
       [ScalarField("single") EXCEPT !.oneof = "kind"],
       [ScalarField("single") EXCEPT !.oneof = "shape"],
       [ScalarField("single") EXCEPT !.oneof = "kind", !.opts = "ignore"],
       [ScalarField("single") EXCEPT !.opts = "ignore"],
       ScalarField("list"),
       ScalarField("map"),
       MessageField("single", "pkg.A", "nil"),
       [MessageField("single", "pkg.B", "set") EXCEPT !.oneof = "shape"] >>

\* protoreflect.Kind: the closed set of field kinds.
FieldKinds ==
    {"bool", "enum", "float", "double", "string", "bytes", "message", "group"}
    \cup Integer32Kinds \cup Integer64Kinds

\* The kinds a map key can have.
KeyKinds == {"string", "bool"} \cup Integer32Kinds \cup Integer64Kinds

\* A kind value outside the closed set.
UnknownKind == "kind(99)"

KindShapes ==
    {[kind |-> kind, card |-> card, key |-> key,
      msg |-> IF kind \in {"message", "group"} THEN "pkg.B" ELSE NoMsg,
      opts |-> "nil", oneof |-> "", optional |-> FALSE, bounds |-> << >>] :
        kind \in FieldKinds \cup {UnknownKind},
        card \in {"single", "list"}, key \in {"string"}}
    \cup
    {[kind |-> kind, card |-> "map", key |-> key,
      msg |-> IF kind \in {"message", "group"} THEN "pkg.B" ELSE NoMsg,
      opts |-> "nil", oneof |-> "", optional |-> FALSE, bounds |-> << >>] :
        kind \in (FieldKinds \ {"group"}) \cup {UnknownKind}, key \in KeyKinds}

\* message User { string id = 1; string name = 2; string email = 3;
\*                repeated string tags = 4; }
ReadmeUser ==
    << ScalarField("single"), ScalarField("single"), ScalarField("single"),
       ScalarField("list") >>

\* The bounds a field option can set, and the values drawn for them.
BoundNames == ContainerBounds \cup ValueBounds
BoundValues == {0, 5}

\* One field, a number or a string, singular, repeated or a map, whose
\* option sets one bound.
BoundShapes ==
    {[ScalarField(card) EXCEPT !.kind = kind, !.opts = "set",
                               !.bounds = (b :> v)] :
        card \in Cards, kind \in {"int32", "string"},
        b \in BoundNames, v \in BoundValues}

\* int32 age = 2 [json_schema = { minimum: 0  maximum: 150 }]
ReadmeAge ==
    [ScalarField("single") EXCEPT !.kind = "int32", !.opts = "set",
                                  !.bounds = ("minimum" :> 0) @@ ("maximum" :> 150)]

FileOfFields(fields) ==
    [fileOpt |-> "true",
     msgOpt |-> [n \in Names |-> "nil"],
     fields |-> [n \in Names |-> IF n = "pkg.A" THEN fields ELSE FixedFields(n)]]

InitFields ==
    /\ \/ \E n \in 0..MaxFields : \E shape \in [1..n -> 1..Len(FieldShapes)] :
             file = FileOfFields([k \in 1..n |-> FieldShapes[shape[k]]])
       \/ \E f \in KindShapes : file = FileOfFields(<<f>>)
       \/ file = FileOfFields(ReadmeUser)
       \/ \E f \in BoundShapes \cup {ReadmeAge} : file = FileOfFields(<<f>>)
    /\ visited = {}
    /\ results = << >>
    /\ stack = << >>
    /\ targetMessages = << >>
    /\ output = << >>
    /\ phase = "idle"
    /\ SynthIdle

SpecFields == InitFields /\ [][NextSynth]_vars

\* generateFile on a file of the field model.
InitGenerate ==
    /\ \/ \E n \in 0..MaxFields : \E shape \in [1..n -> 1..Len(FieldShapes)] :
             file = FileOfFields([k \in 1..n |-> FieldShapes[shape[k]]])
       \/ \E f \in KindShapes : file = FileOfFields(<<f>>)
    /\ visited = {}
    /\ results = << >>
    /\ stack = << [messages |-> FileMessages, i |-> 1,
                   defaultGenerate |-> generateAll, force |-> FALSE,
                   pc |-> "loop", j |-> 0, base |-> 0] >>
    /\ targetMessages = << >>
    /\ output = << >>
    /\ phase = "select"
    /\ SynthIdle

SpecGenerate == InitGenerate /\ [][Next]_vars

----------------------------------------------------------------------------
\* The vocabulary of the selection claims, read off the descriptor.

Range(seq) == {seq[k] : k \in 1..Len(seq)}

\* The names of the messages getMessages returned.
Selected == {FullName(m) : m \in Range(targetMessages)}
SelectionDone == phase = "done"

\* The messages referenced by the message-kind fields of a declared
\* message; for a map field, the message of its value.
MessageRefs(name) ==
    {f.msg : f \in {g \in Range(file.fields[name]) : g.kind = "message"}}

\* The declared messages (no map entries) nested directly in a message.
NestedTypes(name) == {FullName(m) : m \in Range(DeclaredNested(name))}

TopLevelNames == {FullName(m) : m \in Range(FileMessages)}

\* The flag of a message outside of forcing: its own option, else the
\* file's default.
FileDefault == file.fileOpt = "true"
EffectiveFlag(name) ==
    IF file.msgOpt[name] = "nil" THEN FileDefault ELSE file.msgOpt[name] = "true"

\* C1: closure completeness.  When getMessages has returned, every message
\* referenced by a message-kind field of a selected message (the value
\* message for a map field) and every declared message nested in a selected
\* message is selected too, whatever its own generate option.
C1_ClosureComplete ==
    SelectionDone =>
        \A t \in Selected : MessageRefs(t) \cup NestedTypes(t) \subseteq Selected

\* A selected message of a reference cycle whose partner opts out, and a
\* selected parent whose nested message opts out.
C1_Witness ==
    /\ SelectionDone
    /\ \E t \in Selected, u \in Names :
          /\ u # t /\ u \in MessageRefs(t) /\ t \in MessageRefs(u)
          /\ file.msgOpt[u] = "false"
    /\ "pkg.A" \in Selected /\ file.msgOpt["pkg.A.N"] = "false"

\* C2: an explicit generate=true is always honored.  Every message declared
\* in the file, top-level or nested, whose option sets generate=true is
\* selected, whatever the file default and whether or not its enclosing
\* message is selected.
C2_ExplicitTrueHonored ==
    SelectionDone =>
        \A n \in LocalNames : file.msgOpt[n] = "true" => n \in Selected

\* C3: selection is exact.  A declared message is selected if and only if
\* it is a top-level message of the file whose effective flag is true, or
\* is referenced by a message-kind field of a selected message, or is
\* nested in a selected message.  (The references and the nesting are those
\* of C1: a map field refers to its value message, and the synthetic map
\* entries are not among the types.)
C3_SelectionExact ==
    SelectionDone =>
        \A n \in Names :
            n \in Selected <=>
                \/ n \in TopLevelNames /\ EffectiveFlag(n)
                \/ \E t \in Selected : n \in MessageRefs(t)
                \/ \E t \in Selected : n \in NestedTypes(t)

\* Under a false default: an explicit true selects pkg.A and forces its
\* nested message, the explicit false of pkg.B is obeyed, and so is the
\* default of a message that nothing selected refers to.
C3_Witness ==
    /\ SelectionDone /\ ~FileDefault
    /\ file.msgOpt["pkg.A"] = "true" /\ "pkg.A" \in Selected
    /\ file.msgOpt["pkg.A.N"] = "nil"  /\ "pkg.A.N" \in Selected
    /\ file.msgOpt["pkg.B"] = "false" /\ "pkg.B" \notin Selected
    /\ \E n \in Names : "pkg.B" \in MessageRefs(n) /\ n \notin Selected

----------------------------------------------------------------------------
\* The vocabulary of the synthesis claims.

Returned == phase = "returned"

\* The fields of a declared message that are rendered.
RenderedFields(name) ==
    {k \in 1..Len(file.fields[name]) : file.fields[name][k].opts # "ignore"}

\* The types the rendered message-kind fields of a type name.
Referenced(name) ==
    {file.fields[name][k].msg :
        k \in {j \in RenderedFields(name) : file.fields[name][j].kind = "message"}}

\* The types reachable from a type through rendered message-kind fields.
RECURSIVE ReachableFrom(_)
ReachableFrom(S) ==
    LET more == S \cup UNION {Referenced(n) : n \in S} IN
    IF more = S THEN S ELSE ReachableFrom(more)

\* The $refs of a node, of a property with its element, of a registry entry.
NodeRefs(n) == {n.Ref} \ {NoRef}
PropertyRefs(p) ==
    NodeRefs(p) \cup UNION {NodeRefs(p.Items[i]) : i \in DOMAIN p.Items}
                \cup UNION {NodeRefs(p.AdditionalProperties[i]) :
                                i \in DOMAIN p.AdditionalProperties}
EntryRefs(e) ==
    NodeRefs(e) \cup UNION {PropertyRefs(e.Properties[k]) : k \in DOMAIN e.Properties}

\* The node carries nothing but its $ref and its $defs.
OnlyRefAndDefs(n) == [n EXCEPT !.Ref = NoRef, !.Defs = << >>] = Schema

C9_ReachableRegistered ==
    Returned => ReachableFrom({request}) \subseteq DOMAIN root.Defs

\* The property rendered for a message-kind field is, or holds as its
\* element, the $ref of the type of the field.
RefersTo(p, name) == Ref(name) \in PropertyRefs(p)

\* C10 as stated: a root request terminates, the body of the builder of each
\* type runs at most once per request, and the property of a field whose
\* type is already registered when it is rendered is a $ref to that type.
C10_CycleTermination ==
    /\ <>Returned
    /\ [](\A n \in Names : bodyRuns[n] <= 1)
    /\ [][\A name \in DOMAIN defs' : \A k \in DOMAIN defs'[name].Properties :
            (/\ file.fields[name][k].kind = "message"
             /\ file.fields[name][k].msg \in DOMAIN defs
             /\ (name \in DOMAIN defs => k \notin DOMAIN defs[name].Properties))
            => RefersTo(defs'[name].Properties[k], file.fields[name][k].msg)]_vars

\* A builder is on top of the stack, entered for a type the registry
\* already holds: its second call with this registry.
SecondCall ==
    /\ phase \in {"build", "again"} /\ Len(calls) > 0
    /\ TopCall.pc = "enter"
    /\ TopCall.msg \in DOMAIN defs

\* C11: a second call of the builder of a type with the same registry
\* returns a reference node for that type and leaves the registry as it
\* was: the same keys, and every entry unchanged. (Inside a request the
\* caller then assigns the returned node to the property of its own field;
\* nothing else of the registry changes.)
C11_SecondCallIdempotent ==
    /\ [](phase = "answered" =>
            /\ defs = root.Defs
            /\ OnlyRefAndDefs(answer) /\ answer.Defs = << >>
            /\ RefKey(answer.Ref) \in DOMAIN defs)
    /\ [][SecondCall =>
            /\ DOMAIN defs' = DOMAIN defs
            /\ IF Len(calls) = 1
               THEN /\ answer' = [Schema EXCEPT !.Ref = <<"#/$defs/", TopCall.msg>>]
                    /\ defs' = defs
               ELSE LET caller == calls[Len(calls) - 1] IN
                    /\ \A n \in DOMAIN defs \ {caller.msg} : defs'[n] = defs[n]
                    /\ [defs'[caller.msg] EXCEPT !.Properties = << >>]
                          = [defs[caller.msg] EXCEPT !.Properties = << >>]
                    /\ \A k \in DOMAIN defs[caller.msg].Properties :
                          /\ k \in DOMAIN defs'[caller.msg].Properties
                          /\ defs'[caller.msg].Properties[k]
                                = defs[caller.msg].Properties[k]
                    /\ Ref(TopCall.msg)
                          \in PropertyRefs(defs'[caller.msg].Properties[caller.k])
         ]_vars

\* The builder of a type of a reference cycle was called once more with the
\* registry a request left, and answered.
C11_Witness ==
    /\ phase = "answered"
    /\ request = "pkg.A"
    /\ answer.Ref = Ref("pkg.B")
    /\ Ref("pkg.A") \in EntryRefs(defs["pkg.B"])
    /\ Ref("pkg.B") \in EntryRefs(defs["pkg.A"])

\* A sequence of field positions in declaration order.
InDeclarationOrder(seq) ==
    \A i \in 1..Len(seq) : \A j \in 1..Len(seq) : i < j => seq[i] < seq[j]

ReadmeUserBuilt ==
    /\ Returned
    /\ request = "pkg.A"
    /\ file.fields["pkg.A"] = ReadmeUser

GroupMembers(n, g) ==
    {k \in 1..Len(file.fields[n]) :
        file.fields[n][k].oneof = g /\ file.fields[n][k].opts # "ignore"}

\* oneOf lists exactly one {required: [member]} per member of the group,
\* in declaration order.
IsOneOfOf(oneOf, members) ==
    /\ \A i \in 1..Len(oneOf) :
          /\ Len(oneOf[i].Required) = 1
          /\ [oneOf[i] EXCEPT !.Required = << >>] = Schema
    /\ InDeclarationOrder([i \in 1..Len(oneOf) |-> oneOf[i].Required[1]])
    /\ {oneOf[i].Required[1] : i \in 1..Len(oneOf)} = members

\* C14: a built message without a oneof group has neither oneOf nor allOf;
\* with one group it has oneOf, one {required: [member]} per rendered member
\* in declaration order, and no allOf; with two groups it has allOf, one
\* element per group in name order that holds the oneOf of the group and
\* nothing else, and no oneOf of its own. Fields declared optional and
\* ignored members form no group.
C14_OneofConstraints ==
    Returned =>
        \A n \in DOMAIN root.Defs :
            LET e == root.Defs[n]
                kind == GroupMembers(n, "kind")
                shape == GroupMembers(n, "shape")
            IN  CASE kind = {} /\ shape = {} ->
                        e.OneOf = << >> /\ e.AllOf = << >>
                  [] kind # {} /\ shape = {} ->
                        e.AllOf = << >> /\ IsOneOfOf(e.OneOf, kind)
                  [] kind = {} /\ shape # {} ->
                        e.AllOf = << >> /\ IsOneOfOf(e.OneOf, shape)
                  [] OTHER ->
                        /\ e.OneOf = << >>
                        /\ Len(e.AllOf) = 2
                        /\ IsOneOfOf(e.AllOf[1].OneOf, kind)
                        /\ IsOneOfOf(e.AllOf[2].OneOf, shape)
                        /\ \A i \in 1..2 :
                              [e.AllOf[i] EXCEPT !.OneOf = << >>] = Schema

\* A message with two members of one oneof and one member of another was
\* built.
C14_Witness ==
    /\ Returned
    /\ request = "pkg.A"
    /\ GroupMembers("pkg.A", "kind") = {1, 3}
    /\ GroupMembers("pkg.A", "shape") = {2}
    /\ Len(root.Defs["pkg.A"].AllOf) = 2

\* A message whose only oneof group has one rendered and one ignored member
\* was built.
C14_WitnessOneGroup ==
    /\ Returned
    /\ request = "pkg.A"
    /\ GroupMembers("pkg.A", "kind") = {2}
    /\ \E k \in 1..Len(file.fields["pkg.A"]) :
          /\ file.fields["pkg.A"][k].oneof = "kind"
          /\ file.fields["pkg.A"][k].opts = "ignore"
    /\ Len(root.Defs["pkg.A"].OneOf) = 1

\* C15: for every map field the key-name pattern is ^-?[0-9]+$ for a 32- or
\* 64-bit integer key kind, ^(true|false)$ for a bool key and absent for a
\* string key; the container type is "object" and the config of the value
\* is there. The rendered property carries the same.
C15_MapKeyPattern ==
    \A n \in DOMAIN defs : \A k \in DOMAIN defs[n].Properties :
        file.fields[n][k].card = "map" =>
            LET f == file.fields[n][k]
                cfg == getMapSchemaConfig(f)
                p == defs[n].Properties[k]
                pattern ==
                    IF f.key \in {"int32", "sint32", "uint32", "fixed32",
                                  "sfixed32", "int64", "sint64", "uint64",
                                  "fixed64", "sfixed64"}
                    THEN "^-?[0-9]+$"
                    ELSE IF f.key = "bool" THEN "^(true|false)$"
                    ELSE ""
            IN  /\ f.key \in KeyKinds
                /\ cfg.propertyNamesPattern = pattern
                /\ cfg.typeName = "object"
                /\ Len(cfg.nested) = 1
                /\ p.PropertyNames = pattern
                /\ p.Type = "object"
                /\ Len(p.AdditionalProperties) = 1

\* A map with 64-bit integer keys and message values was rendered.
C15_Witness ==
    /\ Returned
    /\ request = "pkg.A"
    /\ Len(file.fields["pkg.A"]) = 1
    /\ file.fields["pkg.A"][1].card = "map"
    /\ file.fields["pkg.A"][1].key = "sfixed64"
    /\ file.fields["pkg.A"][1].kind = "message"
    /\ root.Defs["pkg.A"].Properties[1].PropertyNames = "^-?[0-9]+$"
    /\ root.Defs["pkg.A"].Properties[1].AdditionalProperties[1].Ref = Ref("pkg.B")

\* The JSON Schema type the kind table gives a kind of the closed set.
TableType(kind) ==
    CASE kind = "bool" -> "boolean"
      [] kind \in {"int32", "sint32", "uint32", "fixed32", "sfixed32", "int64",
                   "sint64", "uint64", "fixed64", "sfixed64"} -> "integer"
      [] kind \in {"float", "double"} -> "number"
      [] kind \in {"string", "bytes"} -> "string"
      [] kind = "enum" -> "integer"
      [] kind \in {"message", "group"} -> "object"

ClosedKinds ==
    {"bool", "int32", "sint32", "uint32", "fixed32", "sfixed32", "int64",
     "sint64", "uint64", "fixed64", "sfixed64", "float", "double", "string",
     "bytes", "enum", "message", "group"}

C16_WitnessUnknown ==
    /\ Returned
    /\ request = "pkg.A"
    /\ Len(file.fields["pkg.A"]) = 1
    /\ file.fields["pkg.A"][1].kind \notin ClosedKinds
    /\ getKindTypeName(file.fields["pkg.A"][1].kind).err

\* generateFile has returned, with or without an error.
GenerateReturned == phase \in {"done", "failed"}

\* A selected message defined in the file has a rendered field whose kind is
\* outside the closed set.
UnknownKindSelected ==
    \E n \in Selected \cap LocalNames : \E k \in 1..Len(file.fields[n]) :
        /\ file.fields[n][k].opts # "ignore"
        /\ file.fields[n][k].kind \notin ClosedKinds

\* C17 as stated: when a selected message has a field whose kind is outside
\* the closed set, generateFile fails and emits nothing for the file.
C17_UnknownKindAborts ==
    (GenerateReturned /\ UnknownKindSelected) =>
        phase = "failed" /\ output = << >>

\* The messages whose entry point and builder generateFile emitted.
Emitted == {FullName(m) : m \in Range(output)}

\* The builders the properties emitted for a message call.
BuildersCalled(n) ==
    {CalledBuilder(generateFieldJSONSchema(file.fields[n][k]), file.fields[n][k]) :
        k \in {j \in 1..Len(file.fields[n]) : file.fields[n][j].opts # "ignore"}}
    \ {NoMsg}

\* C18 as stated: the output of generateFile holds the entry point and the
\* builder of every selected type defined outside the file, google.* or
\* not, so every builder an emitted property calls is emitted.
C18_ImportedArtifactsEmitted ==
    SelectionDone =>
        /\ Selected \cap ImportedNames \subseteq Emitted
        /\ \A n \in Emitted : BuildersCalled(n) \subseteq Emitted

\* The number a json.Number of a sign and decimal digits denotes.
RECURSIVE DigitsValue(_)
DigitsValue(ds) ==
    IF Len(ds) = 0 THEN 0
    ELSE 10 * DigitsValue(SubSeq(ds, 1, Len(ds) - 1)) + ds[Len(ds)]
NumberValue(number) ==
    IF number.minus THEN 0 - DigitsValue(number.digits)
    ELSE DigitsValue(number.digits)

\* The schema node carries the bound with the value.
HasBound(node, b, v) ==
    /\ b \in DOMAIN node.Bounds
    /\ IF b \in {"minimum", "maximum"} THEN NumberValue(node.Bounds[b]) = v
       ELSE node.Bounds[b] = v

\* C19 as stated: every bound the option of a rendered field sets appears
\* with its value in the schema emitted for the field (in the property, or
\* in the element of a list or a map), also when the value is 0.
C19_BoundsEmitted ==
    \A n \in DOMAIN defs : \A k \in DOMAIN defs[n].Properties :
        LET f == file.fields[n][k]
            p == defs[n].Properties[k]
        IN  \A b \in DOMAIN f.bounds :
                \/ HasBound(p, b, f.bounds[b])
                \/ \E i \in DOMAIN p.Items : HasBound(p.Items[i], b, f.bounds[b])
                \/ \E i \in DOMAIN p.AdditionalProperties :
                      HasBound(p.AdditionalProperties[i], b, f.bounds[b])

\* C20: getMessages run once more on the same messages with the same
\* default flag and the visited set the first run left returns the empty
\* list (it never appends) and leaves visited unchanged.
C20_RerunReturnsNothing ==
    /\ [](phase = "reselect" => results = << >>)
    /\ [](phase = "reselect" => visited = Selected)
    /\ [][phase = "reselect" => visited' = visited]_vars

\* The second run has returned, for a file in which the first run selected
\* a message with generate=false through a reference, a message through a
\* reference cycle and a nested message.
C20_Witness ==
    /\ phase = "reselect" /\ Len(stack) = 0
    /\ file.msgOpt["pkg.B"] = "false"
    /\ "pkg.B" \in MessageRefs("pkg.A") /\ "pkg.A" \in MessageRefs("pkg.B")
    /\ Selected = LocalNames \cup ImportedNames

\* The messages of the values of the map fields of a declared message.
MapValueRefs(name) ==
    {f.msg : f \in {g \in Range(file.fields[name]) :
                       IsMap(g) /\ MapValueKind(g) = "message"}}

\* C21: no message getMessages collects or returns is a synthetic map
\* entry, and when getMessages has returned, the value message of every
\* map field with a message-kind value of a selected message is selected.
C21_MapEntriesNeverSelected ==
    /\ \A m \in Range(results) \cup Range(targetMessages) : ~IsMapEntry(m)
    /\ SelectionDone =>
          \A t \in Selected : MapValueRefs(t) \subseteq Selected

\* pkg.A is selected, and pkg.B, which opts out, is selected only as the
\* value of a map field of pkg.A.
C21_Witness ==
    /\ SelectionDone
    /\ "pkg.A" \in Selected /\ "pkg.B" \in Selected
    /\ "pkg.B" \in MapValueRefs("pkg.A")
    /\ file.msgOpt["pkg.B"] = "false"
    /\ \A n \in Names : "pkg.B" \in MessageRefs(n) => n \in {"pkg.A", "pkg.B"}
    /\ \A f \in Range(file.fields["pkg.A"]) : f.msg = "pkg.B" => IsMap(f)

\* The proto file carries no file-level generate flag and no message of
\* it, top-level or nested, sets generate=true.
NoOptIn ==
    /\ file.fileOpt = "nil"
    /\ \A n \in LocalNames : file.msgOpt[n] # "true"

\* generateFile returned (nil, nil): no error, and no generated file, which
\* is made only for a non-empty list of local or google messages.
ReturnedNoFile == phase \in {"done", "reselect"} /\ output = << >>

\* C22: for a file that sets no file-level generate flag and in which no
\* message sets generate=true, the selection marks and collects nothing at
\* any point, and generateFile returns no output file and no error.
C22_NoOptInNoOutput ==
    NoOptIn =>
        /\ visited = {} /\ results = << >> /\ targetMessages = << >>
        /\ phase # "failed"
        /\ phase # "select" => ReturnedNoFile

\* generateFile has returned for such a file, in which pkg.A has a nested
\* message and message-kind fields and pkg.B opts out.
C22_Witness ==
    /\ NoOptIn /\ ReturnedNoFile /\ phase = "done"
    /\ file.msgOpt["pkg.B"] = "false" /\ file.msgOpt["pkg.A"] = "nil"
    /\ "pkg.B" \in MessageRefs("pkg.A")

\* The builders that are past their early return: running their fields, or
\* waiting for a builder a field of theirs called.
InBody(n) == \E i \in 1..Len(calls) : calls[i].msg = n /\ calls[i].pc = "fields"

\* The state of a type in a request: 0 unvisited (no key), 1 registered
\* (key present, the builder still in its body), 2 complete.
TypeState(n) == IF n \notin DOMAIN defs THEN 0 ELSE IF InBody(n) THEN 1 ELSE 2

\* C23: registration precedes field processing.  A builder that is in its
\* body, and so every builder that has called another one, has its type's
\* key in the registry; a key is never removed; and the state of a type
\* only advances unvisited -> registered -> complete.
C23_RegisteredBeforeFields ==
    /\ [](\A i \in 1..Len(calls) :
              (calls[i].pc = "fields" \/ i < Len(calls)) =>
                  calls[i].msg \in DOMAIN defs)
    /\ [][DOMAIN defs \subseteq DOMAIN defs']_vars
    /\ [][\A n \in Names : TypeState(n)' >= TypeState(n)]_vars

\* The builder of pkg.B has called the builder of pkg.A, which is not
\* registered yet, while another type is complete already.
C23_Witness ==
    /\ Len(calls) = 2
    /\ calls[1].msg = "pkg.B" /\ calls[1].pc = "fields"
    /\ calls[2].msg = "pkg.A" /\ calls[2].pc = "enter"
    /\ TypeState("pkg.B") = 1 /\ TypeState("pkg.A") = 0
    /\ \E n \in Names : TypeState(n) = 2

\* An encounter of an already visited message is in progress: a loop
\* iteration that did not go through the fields (its field index was never
\* set) is at its nested messages.
RevisitInProgress ==
    \E i \in 1..Len(stack) : stack[i].pc = "nested" /\ stack[i].j = 0

\* C24: an encounter of a message whose name is already in visited is a
\* no-op: from its start to its end no message is appended to the output
\* and no name is added to visited.
C24_RevisitIsNoOp ==
    [][RevisitInProgress => (visited' = visited /\ results' = results)]_vars

\* The step that starts the field loop of the message of the top frame.
StartsFields ==
    /\ Len(stack) > 0 /\ Len(stack') = Len(stack)
    /\ Top.pc = "loop" /\ stack'[Len(stack)].pc = "fields"

\* C25: selection terminates, and the fields of each message are traversed
\* at most once in a run: getMessages returns to generateFile and, run once
\* more on the visited set it left, returns again; and the field loop
\* starts only for a message that was not in visited and is from then on.
C25_SelectionTerminates ==
    /\ <>(phase = "reselect" /\ Len(stack) = 0)
    /\ [][visited \subseteq visited']_vars
    /\ [][StartsFields =>
            /\ FullName(Top.messages[Top.i]) \notin visited
            /\ FullName(Top.messages[Top.i]) \in visited']_vars

\* getMessages has returned for a file with a self reference, a recursive
\* map value and a nested message that refers to its enclosing message,
\* all of them selected.
C25_Witness ==
    /\ phase = "done"
    /\ "pkg.B" \in MapValueRefs("pkg.B") \cup MessageRefs("pkg.B")
    /\ "pkg.A" \in MessageRefs("pkg.A.N")
    /\ {"pkg.A", "pkg.B", "pkg.A.N"} \subseteq Selected

\* The messages the fields of a message refer to, in field declaration
\* order (the value message for a map field), and then its nested messages.
RECURSIVE FieldDependencies(_, _)
FieldDependencies(message, k) ==
    IF k > Len(Fields(message)) THEN << >>
    ELSE (IF FieldDependency(message, k)[1] # NoMsg
          THEN << <<FieldDependency(message, k), TRUE>> >> ELSE << >>)
         \o FieldDependencies(message, k + 1)
NestedForced(message) ==
    [k \in 1..Len(Messages(message)) |-> <<Messages(message)[k], TRUE>>]

\* The depth-first order: `todo` are the encounters still to come, each a
\* message and whether it is forced; out are the messages selected so far.
\* An encounter of a selected message, of a map entry or of a message that
\* does not generate adds nothing; any other selects the message, then what
\* its fields select, then what its nested messages select.
RECURSIVE DepthFirst(_, _)
DepthFirst(todo, out) ==
    IF todo = << >> THEN out
    ELSE LET message == Head(todo)[1]
             forced == Head(todo)[2] IN
         IF \/ IsMapEntry(message)
            \/ message \in Range(out)
            \/ ~shouldGen(message, (IF forced THEN TRUE ELSE generateAll), forced)
         THEN DepthFirst(Tail(todo), out)
         ELSE DepthFirst(FieldDependencies(message, 1) \o NestedForced(message)
                             \o Tail(todo),
                         Append(out, message))
DepthFirstOrder ==
    DepthFirst([k \in 1..Len(FileMessages) |-> <<FileMessages[k], FALSE>>], << >>)

\* C26: the list getMessages returns is in depth-first traversal order:
\* each selected message, then the messages first selected through its
\* fields in field declaration order, then the messages first selected as
\* its nested messages.
C26_DepthFirstOrder == SelectionDone => targetMessages = DepthFirstOrder

\* The selected messages are those of the depth-first traversal, whatever
\* their order.
C26_SameSet == SelectionDone => Range(targetMessages) = Range(DepthFirstOrder)

\* The fields of a declared message marked ignore.
IgnoredFields(name) ==
    {k \in 1..Len(file.fields[name]) : Ignored(file.fields[name][k])}

\* The fields the oneOf list names.
OneOfNamed(oneOf) ==
    UNION {Range(oneOf[i].Required) : i \in 1..Len(oneOf)}

\* The fields a built message names in its properties, its required list
\* and its oneof constraints.
NamedFields(e) ==
    DOMAIN e.Properties \cup Range(e.Required) \cup OneOfNamed(e.OneOf)
        \cup UNION {OneOfNamed(e.AllOf[i].OneOf) : i \in 1..Len(e.AllOf)}

\* C27: a field marked ignore is skipped entirely.  No built message names
\* an ignored field in its properties, its required list or a oneOf group;
\* every other field has its property; and the oneof constraints are those
\* of the groups that have a member left: none without such a group, oneOf
\* (and no allOf) with exactly one.
C27_IgnoreSkipsField ==
    Returned =>
        \A n \in DOMAIN root.Defs :
            LET e == root.Defs[n]
                left == {g \in Range(OneofNames) : GroupMembers(n, g) # {}}
            IN  /\ NamedFields(e) \cap IgnoredFields(n) = {}
                /\ DOMAIN e.Properties = RenderedFields(n)
                /\ left = {} => (e.OneOf = << >> /\ e.AllOf = << >>)
                /\ Cardinality(left) = 1 =>
                      /\ e.AllOf = << >>
                      /\ OneOfNamed(e.OneOf) = UNION {GroupMembers(n, g) : g \in left}

\* A message with an ignored plain field and two declared oneofs, one of
\* which has its only member ignored, was built: one property, one oneOf.
C27_Witness ==
    /\ Returned
    /\ request = "pkg.A"
    /\ Len(file.fields["pkg.A"]) = 3
    /\ IgnoredFields("pkg.A") = {1, 3}
    /\ file.fields["pkg.A"][1].oneof = "kind"
    /\ file.fields["pkg.A"][2].oneof = "shape"
    /\ file.fields["pkg.A"][3].oneof = ""
    /\ DOMAIN root.Defs["pkg.A"].Properties = {2}
    /\ Len(root.Defs["pkg.A"].OneOf) = 1

\* C28: every rendered singular message-kind field of a built message is a
\* reference to the definition of the type it names, "#/$defs/<full name>",
\* with or without field-level options, and holds nothing of the referenced
\* message's structure.
C28_MessageFieldIsRef ==
    Returned =>
        \A n \in DOMAIN root.Defs :
            \A k \in RenderedFields(n) :
                LET f == file.fields[n][k] IN
                (f.kind = "message" /\ f.card = "single") =>
                    /\ k \in DOMAIN root.Defs[n].Properties
                    /\ root.Defs[n].Properties[k].Ref = Ref(f.msg)
                    /\ root.Defs[n].Properties[k].Type = ""
                    /\ root.Defs[n].Properties[k].Properties = << >>

\* The same for the fields without field-level options only.
C28_PlainMessageFieldIsRef ==
    Returned =>
        \A n \in DOMAIN root.Defs :
            \A k \in RenderedFields(n) :
                LET f == file.fields[n][k] IN
                (f.kind = "message" /\ f.card = "single" /\ f.opts = "nil") =>
                    /\ k \in DOMAIN root.Defs[n].Properties
                    /\ root.Defs[n].Properties[k] = RefSchema(f.msg)

\* The result of the earlier request as its caller sees it now: the root
\* it got, with the map root.Defs refers to as that map is now.
EarlierResult ==
    IF earlier.reg = regId THEN [earlier.root EXCEPT !.Defs = defs]
    ELSE earlier.root

C29_WitnessRepeated ==
    /\ Returned
    /\ earlier.request = "pkg.A" /\ request = "pkg.A"
    /\ "pkg.B" \in DOMAIN root.Defs

\* No element of the sequence occurs twice.
NoDuplicates(seq) ==
    \A i, k \in 1..Len(seq) : seq[i] = seq[k] => i = k

\* The messages generateFile emits an entry point and a builder for: one
\* call of generateMessageJSONSchema per element of output.
EmittedFor(name) == {i \in 1..Len(output) : FullName(output[i]) = name}

\* C30: the list a run of getMessages started with an empty visited set
\* collects holds no message twice and visited is exactly the set of the
\* names in it, at every point of the run and on return; and generateFile
\* emits the functions of each selected local or google.* message exactly
\* once, and of no other message.
C30_NoDuplicates ==
    /\ phase = "select" =>
          /\ NoDuplicates(results)
          /\ visited = {FullName(m) : m \in Range(results)}
    /\ SelectionDone =>
          /\ NoDuplicates(targetMessages)
          /\ visited = Selected
          /\ \A n \in Names :
                Cardinality(EmittedFor(n)) =
                    IF n \in Selected /\ (IsLocal(n) \/ isGoogleType(n))
                    THEN 1 ELSE 0

\* generateFile has emitted a file for a selection in which pkg.A and
\* pkg.B refer to each other, so that each was encountered more than once,
\* and a google type was selected.
C30_Witness ==
    /\ SelectionDone
    /\ "pkg.B" \in MessageRefs("pkg.A") /\ "pkg.A" \in MessageRefs("pkg.B")
    /\ {"pkg.A", "pkg.B", "pkg.A.N", "google.type.Date"} \subseteq Selected
    /\ Len(output) = 4

============================================================================
